---------------------------- MODULE Spec2Model ----------------------------
(***************************************************************************)
(* State-machine model of the recipe pipeline:                             *)
(*   scripts/pipeline.py          the Pipeline Runner                      *)
(*   scripts/telegram_handler.py  the Command Dispatcher                   *)
(*                                                                         *)
(* Python strings are sequences of one-character strings, so that strip,   *)
(* rstrip, lower, startswith, replace and the substring test are computed  *)
(* as the interpreter computes them.  Invocations are sequential (one      *)
(* process at a time); the publish repository persists between them.       *)
(***************************************************************************)
EXTENDS Integers, Sequences, FiniteSets, TLC

(***************************************************************************)
(* Bounds of the model.                                                    *)
(***************************************************************************)
\* number of invocations (direct runner runs or dispatcher calls) explored
MaxRuns == 2

(***************************************************************************)
(* Program constants.                                                      *)
(***************************************************************************)
\* download_video(..., max_retries=3)
max_retries_plus_one == 3 + 1
max_retries == 3
\* telegram_handler: result.stderr[-500:] if len(result.stderr) > 500
StderrTail == 500

(***************************************************************************)
(* Python string primitives.                                               *)
(***************************************************************************)
LowerLetters == <<"a","b","c","d","e","f","g","h","i","j","k","l","m","n","o","p","q","r","s","t","u","v","w","x","y","z">>
UpperLetters == <<"A","B","C","D","E","F","G","H","I","J","K","L","M","N","O","P","Q","R","S","T","U","V","W","X","Y","Z">>
Digits == <<"0","1","2","3","4","5","6","7","8","9">>

Range(s) == {s[i] : i \in DOMAIN s}

\* str.lower() on one character
LowerChar(c) ==
    IF \E i \in DOMAIN UpperLetters : UpperLetters[i] = c
    THEN LowerLetters[CHOOSE i \in DOMAIN UpperLetters : UpperLetters[i] = c]
    ELSE c

\* str.lower()
Lower(s) == [i \in DOMAIN s |-> LowerChar(s[i])]

\* c.isalnum() for the ASCII characters of the model
IsAlnum(c) == c \in Range(LowerLetters) \cup Range(UpperLetters) \cup Range(Digits)

\* whitespace as str.strip() sees it
IsSpace(c) == c \in {" ", "\t", "\n"}

\* s.startswith(p)
StartsWith(s, p) == Len(s) >= Len(p) /\ SubSeq(s, 1, Len(p)) = p

\* sub in s
Contains(sub, s) ==
    \E i \in 0..(Len(s) - Len(sub)) : SubSeq(s, i + 1, i + Len(sub)) = sub

\* s.rstrip('/')
RECURSIVE RStripSlash(_)
RStripSlash(s) ==
    IF s # <<>> /\ s[Len(s)] = "/" THEN RStripSlash(SubSeq(s, 1, Len(s) - 1)) ELSE s

RECURSIVE LStripSpace(_)
LStripSpace(s) ==
    IF s # <<>> /\ IsSpace(s[1]) THEN LStripSpace(Tail(s)) ELSE s

RECURSIVE RStripSpace(_)
RStripSpace(s) ==
    IF s # <<>> /\ IsSpace(s[Len(s)]) THEN RStripSpace(SubSeq(s, 1, Len(s) - 1)) ELSE s

\* s.strip()
Strip(s) == RStripSpace(LStripSpace(s))

\* s.replace(old, new): leftmost, non-overlapping occurrences (old non-empty)
RECURSIVE Replace(_, _, _)
Replace(s, old, new) ==
    IF s = <<>> THEN <<>>
    ELSE IF StartsWith(s, old)
         THEN new \o Replace(SubSeq(s, Len(old) + 1, Len(s)), old, new)
         ELSE <<s[1]>> \o Replace(Tail(s), old, new)

\* s[-n:] if len(s) > n else s
LastChars(s, n) == IF Len(s) > n THEN SubSeq(s, Len(s) - n + 1, Len(s)) ELSE s

(***************************************************************************)
(* String literals of the two scripts.                                     *)
(***************************************************************************)
S_tiktok == <<"t","i","k","t","o","k">>
S_instagram == <<"i","n","s","t","a","g","r","a","m">>
S_youtube == <<"y","o","u","t","u","b","e">>
S_youtu_be == <<"y","o","u","t","u",".","b","e">>
S_RecipeColon == <<"R","e","c","i","p","e",":">>
S_SiteUrl == <<"h","t","t","p","s",":","/","/","j","o","n","a","h","e","n","k",".","g","i","t","h","u","b",".","i","o","/","r","e","c","i","p","e","s","/">>

\* pipeline.py stdout lines
P_Usage == <<"U","s","a","g","e",":"," ","p","y","t","h","o","n","3"," ","p","i","p","e","l","i","n","e",".","p","y"," ","<","v","i","d","e","o","_","u","r","l",">">>
\* "!" and "@" stand for the warning-sign and link pictographs that open the lines
P_Exists(title) == <<"!"," ","R","e","c","i","p","e"," ","a","l","r","e","a","d","y"," ","e","x","i","s","t","s",":"," ">> \o title
P_Link == <<"@"," ">> \o S_SiteUrl
P_NoKey == <<"E","r","r","o","r",":"," ","G","E","M","I","N","I","_","A","P","I","_","K","E","Y"," ","o","r"," ","G","O","O","G","L","E","_","A","P","I","_","K","E","Y"," ","n","o","t"," ","s","e","t">>
P_Banner == <<"=","=","="," ","R","e","c","i","p","e"," ","P","i","p","e","l","i","n","e"," ","=","=","=">>
P_Url(u) == <<"U","R","L",":"," ">> \o u
P_FailDownload == <<"F","a","i","l","e","d"," ","t","o"," ","d","o","w","n","l","o","a","d"," ","v","i","d","e","o">>
P_FailAudio == <<"F","a","i","l","e","d"," ","t","o"," ","e","x","t","r","a","c","t"," ","a","u","d","i","o">>
P_FailTranscribe == <<"F","a","i","l","e","d"," ","t","o"," ","t","r","a","n","s","c","r","i","b","e">>
P_FailRecipe == <<"F","a","i","l","e","d"," ","t","o"," ","e","x","t","r","a","c","t"," ","r","e","c","i","p","e">>
P_Done == <<"=","=","="," ","D","o","n","e","!"," ","=","=","=">>
P_Recipe(title) == S_RecipeColon \o <<" ">> \o title
P_Site(u) == <<"S","i","t","e",":"," ">> \o u
\* first line of the interpreter's report of an unhandled exception (stderr)
P_Traceback == <<"T","r","a","c","e","b","a","c","k"," ","(","m","o","s","t"," ","r","e","c","e","n","t"," ","c","a","l","l"," ","l","a","s","t",")",":">>


\* telegram_handler.py stdout lines ("+" and "x" stand for the check and cross marks)
D_Usage == <<"U","s","a","g","e",":"," ","/","r","e","c","i","p","e"," ","<","v","i","d","e","o","-","u","r","l",">">>
D_Unsupported == <<"!"," ","U","n","s","u","p","p","o","r","t","e","d"," ","p","l","a","t","f","o","r","m","."," ","S","u","p","p","o","r","t","e","d",":"," ","t","i","k","t","o","k",","," ","i","n","s","t","a","g","r","a","m",","," ","y","o","u","t","u","b","e",","," ","y","o","u","t","u",".","b","e">>
D_AddedHead == <<"+"," ","A","d","d","e","d"," ","r","e","c","i","p","e",":"," ","*","*">>
D_Added(title) == D_AddedHead \o title \o <<"*","*">>
D_Failed == <<"x"," ","F","a","i","l","e","d"," ","t","o"," ","p","r","o","c","e","s","s"," ","r","e","c","i","p","e">>

(***************************************************************************)
(* Inputs explored: command-line URLs, titles and source URLs the language *)
(* model may answer with.                                                  *)
(***************************************************************************)
U_tiktok == S_tiktok
U_tiktok_slash == S_tiktok \o <<"/">>
\* two trailing slashes and a trailing blank, removed by strip()
U_tiktok_slashes_sp == S_tiktok \o <<"/", "/", " ">>
U_vimeo == <<"v","i","m","e","o">>

ArgUrls == {U_tiktok, U_tiktok_slash, U_tiktok_slashes_sp, U_vimeo}

\* sys.argv[1:] of an invocation
ArgLists == {<<>>} \cup {<<u>> : u \in ArgUrls}

T_Soup == <<"S","o","u","p">>
T_Mac == <<"M","a","c"," ","n","/","C","h","e","e","s","e","!">>
Titles == {T_Soup, T_Mac}

\* source.url in the language model's answer: the prompt's URL, or another one
RespUrls(url) == {url, U_tiktok, U_tiktok_slash}

(***************************************************************************)
(* State.                                                                  *)
(***************************************************************************)
VARIABLES
    \* publish repository /home/jonathan/clawd/recipes
    index,          \* data/recipes.json: the sequence index['recipes']
    recipeFiles,    \* recipes/<slug>.json: slug -> record written
    thumbFiles,     \* recipes/<slug>.jpg: set of slugs
    \* invocations
    runs,           \* invocations started so far
    env_key,        \* GEMINI_API_KEY or GOOGLE_API_KEY is set in the environment
    \* Pipeline Runner process (pipeline.py main)
    pc,             \* position in main / save_to_github
    args,           \* sys.argv[1:]
    video_url,
    work_dir,       \* "none" | "exists" | "removed"
    work_files,     \* files inside the work directory
    attempt,        \* loop variable of download_video
    responses,      \* outcomes of the backend calls of the running download_video
    video_path, audio_path, thumbnail_path, transcription,
    recipe,         \* dict parsed from the language model's answer (<<>>: falsy)
    slug,
    platform,       \* local of extract_recipe: the platform named in the prompt
    exc,            \* exception propagating out of main ("none" if none)
    stages,         \* stage functions called in this run, in order
    git,            \* the ways git commands of this run have failed ("nonzero", "timeout")
    stdout, stderr, exit_code,
    \* Command Dispatcher process (telegram_handler.py main)
    d_pc,           \* "off" | "start" | "wait" | "exited"
    d_args, d_stdout, d_stderr, d_exit,
    \* history: <<run number, video_url>> of the runs that completed the publish stage
    published,
    \* history: the publish repository as the current invocation found it
    repo0

repo == <<index, recipeFiles, thumbFiles>>
locals == <<video_url, attempt, responses, video_path, audio_path, thumbnail_path,
            transcription, recipe, slug, platform, exc, stages, git>>
proc == <<pc, args, work_dir, work_files, stdout, stderr, exit_code>>
disp == <<d_pc, d_args, d_stdout, d_stderr, d_exit>>
vars == <<repo, runs, env_key, locals, proc, disp, published, repo0>>

\* backend calls made by the running download_video
calls == Len(responses)

None == "None"
\* no exit status yet: the process has not ended
NoExit == 0 - 1
\* status of a child ended by SIGKILL, as subprocess reports it
Killed == -9

(***************************************************************************)
(* Recipe records.                                                         *)
(***************************************************************************)
\* position of a character in the model's character table (stands for ord)
CharTable == LowerLetters \o UpperLetters \o Digits \o <<" ", "/", "!", "-", ".", ":">>
Ord(c) == IF \E i \in DOMAIN CharTable : CharTable[i] = c
          THEN CHOOSE i \in DOMAIN CharTable : CharTable[i] = c
          ELSE 0

\* int(hashlib.md5(title.encode()).hexdigest(), 16): a deterministic digest of the
\* title (a polynomial digest stands for MD5, whose value no property here reads)
RECURSIVE hash_val(_)
hash_val(title) ==
    IF title = <<>> THEN 7 ELSE (31 * hash_val(Tail(title)) + Ord(title[1])) % 65536

generate_color_scheme(title) ==
    LET hue == hash_val(title) % 360 IN
    [primary   |-> <<hue, 80, 55>>,
     secondary |-> <<(hue + 30) % 360, 70, 60>>,
     accent    |-> <<(hue + 180) % 360, 75, 50>>,
     gradient  |-> <<hue, (hue + 40) % 360>>]

\* the slug without .replace('/', '-'): a '/' is deleted with the other punctuation
MakeSlugSlashDropped(title) ==
    LET s == Replace(Lower(title), <<" ">>, <<"-">>)
    IN  SelectSeq(s, LAMBDA c : IsAlnum(c) \/ c = "-")

\* slug = title.lower().replace(' ', '-').replace('/', '-'), then the characters
\* that are alphanumeric or '-'
MakeSlug(title) ==
    LET s == Replace(Replace(Lower(title), <<" ">>, <<"-">>), <<"/">>, <<"-">>)
    IN  SelectSeq(s, LAMBDA c : IsAlnum(c) \/ c = "-")

\* platform label of extract_recipe
DetectPlatform(source_url) ==
    IF Contains(S_tiktok, source_url) THEN "tiktok"
    ELSE IF Contains(S_instagram, source_url) THEN "instagram"
    ELSE IF Contains(S_youtube, source_url) THEN "youtube"
    ELSE "unknown"

Metadata == [time |-> "20 minutes", difficulty |-> "easy", tags |-> <<"soup">>]

\* a complete answer of the language model, following the prompt's structure
FullRecipe(title, url, pf) ==
    [title    |-> title,
     source   |-> [url |-> url, platform |-> pf, creator |-> "@unknown"],
     metadata |-> Metadata]

\* d without key k
DropKey(d, k) == [x \in DOMAIN d \ {k} |-> d[x]]

\* the dicts json.loads(text) may yield: complete, or lacking one required field
RecipeAnswers(url, pf) ==
    {FullRecipe(T_Soup, u, pf) : u \in RespUrls(url)}
    \cup {FullRecipe(t, url, pf) : t \in Titles}
    \cup {DropKey(FullRecipe(T_Soup, url, pf), k) : k \in {"title", "source"}}
    \cup {DropKey(FullRecipe(T_Soup, u, pf), "metadata") : u \in RespUrls(url)}

\* the reduced projection appended to the index
IndexEntry(r) ==
    LET e == [title |-> r.title, source |-> r.source,
              metadata |-> r.metadata, colors |-> r.colors]
    IN  IF "thumbnail" \in DOMAIN r THEN e @@ [thumbnail |-> r.thumbnail] ELSE e

\* an index the repository may hold before the first invocation
SeedRecipe == FullRecipe(T_Soup, U_tiktok, "tiktok") @@ [colors |-> generate_color_scheme(T_Soup)]
InitIndexes == {<<>>, <<IndexEntry(SeedRecipe)>>}

Init ==
    /\ index \in InitIndexes
    /\ recipeFiles = IF index = <<>> THEN <<>> ELSE (MakeSlug(T_Soup) :> SeedRecipe)
    /\ thumbFiles = {}
    /\ runs = 0
    /\ env_key = FALSE
    /\ pc = "idle"
    /\ args = <<>>
    /\ video_url = <<>>
    /\ work_dir = "none"
    /\ work_files = {}
    /\ attempt = 0
    /\ responses = <<>>
    /\ video_path = None
    /\ audio_path = None
    /\ thumbnail_path = None
    /\ transcription = None
    /\ recipe = <<>>
    /\ slug = <<>>
    /\ platform = None
    /\ exc = "none"
    /\ stages = <<>>
    /\ git = {}
    /\ stdout = <<>>
    /\ stderr = <<>>
    /\ exit_code = NoExit
    /\ d_pc = "off"
    /\ d_args = <<>>
    /\ d_stdout = <<>>
    /\ d_stderr = <<>>
    /\ d_exit = NoExit
    /\ published = {}
    /\ repo0 = repo

(***************************************************************************)
(* Starting an invocation.  Processes run one at a time.                   *)
(***************************************************************************)
Idle == pc \in {"idle", "exited", "killed"} /\ d_pc \in {"off", "exited"}

\* the variables of main and of the stage functions, before any is assigned
NoLocals ==
    /\ video_url' = <<>>
    /\ attempt' = 0
    /\ responses' = <<>>
    /\ video_path' = None
    /\ audio_path' = None
    /\ thumbnail_path' = None
    /\ transcription' = None
    /\ recipe' = <<>>
    /\ slug' = <<>>
    /\ platform' = None
    /\ exc' = "none"
    /\ stages' = <<>>
    /\ git' = {}

\* a fresh pipeline.py process with command line a
NewProcess(a) ==
    /\ pc' = "main"
    /\ args' = a
    /\ work_dir' = "none"
    /\ work_files' = {}
    /\ NoLocals
    /\ stdout' = <<>>
    /\ stderr' = <<>>
    /\ exit_code' = NoExit

\* no pipeline.py process: nothing of an earlier one is left but the repository
NoProcess ==
    /\ pc' = "idle"
    /\ args' = <<>>
    /\ work_dir' = "none"
    /\ work_files' = {}
    /\ NoLocals
    /\ stdout' = <<>>
    /\ stderr' = <<>>
    /\ exit_code' = NoExit

\* python3 pipeline.py [url], run from a shell
StartDirect(a, k) ==
    /\ Idle
    /\ runs < MaxRuns
    /\ runs' = runs + 1
    /\ env_key' = k
    /\ NewProcess(a)
    /\ d_pc' = "off"
    /\ d_args' = <<>>
    /\ d_stdout' = <<>>
    /\ d_stderr' = <<>>
    /\ d_exit' = NoExit
    /\ repo0' = repo
    /\ UNCHANGED <<repo, published>>

\* python3 telegram_handler.py [url]
StartDispatcher(a, k) ==
    /\ Idle
    /\ runs < MaxRuns
    /\ runs' = runs + 1
    /\ env_key' = k
    /\ d_pc' = "start"
    /\ d_args' = a
    /\ d_stdout' = <<>>
    /\ d_stderr' = <<>>
    /\ d_exit' = NoExit
    /\ NoProcess
    /\ repo0' = repo
    /\ UNCHANGED <<repo, published>>

(***************************************************************************)
(* Pipeline Runner: main() up to the work directory.                       *)
(***************************************************************************)
\* sys.exit(code) outside the try block, or main returning before it
Exit(code) == pc' = "exited" /\ exit_code' = code

\* if len(sys.argv) < 2: usage, exit 1; video_url = sys.argv[1].strip()
CheckArgs ==
    /\ pc = "main"
    /\ IF Len(args) < 1
       THEN /\ stdout' = Append(stdout, P_Usage)
            /\ Exit(1)
            /\ UNCHANGED video_url
       ELSE /\ video_url' = Strip(args[1])
            /\ pc' = "dupcheck"
            /\ UNCHANGED <<stdout, exit_code>>
    /\ UNCHANGED <<repo, runs, env_key, disp, published, repo0, args, work_dir, work_files,
                   attempt, responses, video_path, audio_path, thumbnail_path,
                   transcription, recipe, slug, platform, exc, stages, git, stderr>>

\* the positions of the index entries whose source URL equals url once trailing
\* slashes are removed from both
ExistingFor(idx, url) ==
    {i \in DOMAIN idx : RStripSlash(idx[i].source.url) = RStripSlash(url)}

Min(S) == CHOOSE x \in S : \A y \in S : x <= y

\* "Check if already exists": the loop over index['recipes'] returns at the first match
DuplicateCheck ==
    /\ pc = "dupcheck"
    /\ LET found == ExistingFor(index, video_url) IN
       IF found # {}
       THEN /\ stdout' = stdout \o <<P_Exists(index[Min(found)].title), P_Link>>
            /\ Exit(0)
       ELSE /\ pc' = "cred"
            /\ UNCHANGED <<stdout, exit_code>>
    /\ UNCHANGED <<repo, runs, env_key, disp, published, repo0, args, video_url, work_dir,
                   work_files, attempt, responses, video_path, audio_path, thumbnail_path,
                   transcription, recipe, slug, platform, exc, stages, git, stderr>>

\* the run as it would go on with the credential check left out
CredentialNotChecked ==
    /\ pc = "cred"
    /\ pc' = "mkdtemp"
    /\ UNCHANGED <<repo, runs, env_key, disp, published, repo0, args, video_url, work_dir,
                   work_files, attempt, responses, video_path, audio_path, thumbnail_path,
                   transcription, recipe, slug, platform, exc, stages, git, stdout, stderr, exit_code>>

\* gemini_key = os.environ.get(...) or os.environ.get(...); exit 1 if not set
CredentialCheck ==
    /\ pc = "cred"
    /\ IF ~env_key
       THEN /\ stdout' = Append(stdout, P_NoKey)
            /\ Exit(1)
       ELSE /\ pc' = "mkdtemp"
            /\ UNCHANGED <<stdout, exit_code>>
    /\ UNCHANGED <<repo, runs, env_key, disp, published, repo0, args, video_url, work_dir,
                   work_files, attempt, responses, video_path, audio_path, thumbnail_path,
                   transcription, recipe, slug, platform, exc, stages, git, stderr>>

\* work_dir = tempfile.mkdtemp(prefix='recipe-'); the try block opens
MakeWorkDir ==
    /\ pc = "mkdtemp"
    /\ work_dir' = "exists"
    /\ work_files' = {}
    /\ stdout' = stdout \o <<P_Banner, P_Url(video_url), <<>> >>
    /\ pc' = "download"
    /\ UNCHANGED <<repo, runs, env_key, disp, published, repo0, args, video_url,
                   attempt, responses, video_path, audio_path, thumbnail_path,
                   transcription, recipe, slug, platform, exc, stages, git, stderr, exit_code>>

(***************************************************************************)
(* Pipeline Runner: the stages inside the try block.                       *)
(***************************************************************************)
\* `return None` inside the try block: the finally clause runs next
Abort(line) == stdout' = Append(stdout, line) /\ pc' = "finally"

\* an exception leaving a stage function: nothing in main catches it
Raise(e) == exc' = e /\ pc' = "finally"

\* whether download_video tries again after a failed attempt
\* (`if attempt < max_retries - 1`, then the next turn of `for attempt in range(max_retries)`)
RetryAfter(a) == a < max_retries - 1

\* `for attempt in range(max_retries)`
InRange(a) == a < max_retries

\* one turn of the retry loop of download_video: one call of the backend.
\*   "non_tunnel"       the backend answers with a status other than tunnel
\*   "exception"        urlopen or the decoding of its answer raises
\*   "fetch_exception"  status tunnel, but fetching the media raises; the media file
\*                      may have been written in part (partial)
\*   "ok"               status tunnel and the media file is written
DownloadAttempt(o, partial) ==
    /\ pc = "download"
    /\ InRange(attempt)
    /\ responses' = Append(responses, o)
    /\ stages' = IF attempt = 0 THEN Append(stages, "download_video") ELSE stages
    /\ work_files' = IF o = "ok" \/ (o = "fetch_exception" /\ partial)
                     THEN work_files \cup {"video.mp4"} ELSE work_files
    /\ IF o = "ok"
       THEN /\ video_path' = "video.mp4"
            /\ pc' = "downloaded"
            /\ UNCHANGED attempt
       ELSE IF RetryAfter(attempt) /\ InRange(attempt + 1)
       THEN /\ attempt' = attempt + 1
            /\ UNCHANGED <<video_path, pc>>
       ELSE \* return None
            /\ video_path' = None
            /\ pc' = "downloaded"
            /\ UNCHANGED attempt
    /\ UNCHANGED <<repo, runs, env_key, disp, published, repo0, args, video_url, work_dir,
                   audio_path, thumbnail_path, transcription, recipe, slug, platform, exc,
                   git, stdout, stderr, exit_code>>

\* main going on to the audio stage without looking at what download_video returned
AfterDownloadUnchecked ==
    /\ pc = "downloaded"
    /\ attempt' = 0
    /\ responses' = <<>>
    /\ pc' = "audio"
    /\ UNCHANGED <<repo, runs, env_key, disp, published, repo0, args, video_url, work_dir,
                   work_files, video_path, audio_path, thumbnail_path, transcription,
                   recipe, slug, platform, exc, stages, git, stdout, stderr, exit_code>>

\* main after download_video has returned (its loop variable and the count of its
\* backend calls end with it): `if not video_path: ... return None`
AfterDownload ==
    /\ pc = "downloaded"
    /\ attempt' = 0
    /\ responses' = <<>>
    /\ IF video_path = None
       THEN Abort(P_FailDownload)
       ELSE pc' = "audio" /\ UNCHANGED stdout
    /\ UNCHANGED <<repo, runs, env_key, disp, published, repo0, args, video_url, work_dir,
                   work_files, video_path, audio_path, thumbnail_path, transcription,
                   recipe, slug, platform, exc, stages, git, stderr, exit_code>>

\* extract_audio: "ok", "nonzero" (ffmpeg fails), "raise" (exit 0 but no readable
\* output file: os.path.getsize raises)
ExtractAudio(o) ==
    /\ pc = "audio"
    /\ stages' = Append(stages, "extract_audio")
    /\ CASE o = "ok" ->
              /\ work_files' = work_files \cup {"audio.wav"}
              /\ audio_path' = "audio.wav"
              /\ pc' = "thumb"
              /\ UNCHANGED <<stdout, exc>>
         [] o = "nonzero" ->
              /\ audio_path' = None
              /\ Abort(P_FailAudio)
              /\ UNCHANGED <<work_files, exc>>
         [] o = "raise" ->
              /\ Raise("OSError")
              /\ UNCHANGED <<work_files, audio_path, stdout>>
    /\ UNCHANGED <<repo, runs, env_key, disp, published, repo0, args, video_url, work_dir,
                   attempt, responses, video_path, thumbnail_path, transcription, recipe,
                   slug, platform, git, stderr, exit_code>>

\* extract_thumbnail: a failing ffmpeg gives None and main goes on
ExtractThumbnail(o) ==
    /\ pc = "thumb"
    /\ stages' = Append(stages, "extract_thumbnail")
    /\ CASE o = "ok" ->
              /\ work_files' = work_files \cup {"thumbnail.jpg"}
              /\ thumbnail_path' = "thumbnail.jpg"
              /\ pc' = "transcribe"
              /\ UNCHANGED exc
         [] o = "nonzero" ->
              /\ thumbnail_path' = None
              /\ pc' = "transcribe"
              /\ UNCHANGED <<work_files, exc>>
         [] o = "raise" ->
              /\ Raise("OSError")
              /\ UNCHANGED <<work_files, thumbnail_path>>
    /\ UNCHANGED <<repo, runs, env_key, disp, published, repo0, args, video_url, work_dir,
                   attempt, responses, video_path, audio_path, transcription, recipe,
                   slug, platform, git, stdout, stderr, exit_code>>

\* transcribe: "ok", "empty" (an empty transcript, falsy in main), "nonzero"
\* (whisper fails), "raise" (the .txt file cannot be opened)
Transcribe(o) ==
    /\ pc = "transcribe"
    /\ stages' = Append(stages, "transcribe")
    /\ CASE o = "ok" ->
              /\ work_files' = work_files \cup {"audio.wav.txt"}
              /\ transcription' = "text"
              /\ pc' = "extract"
              /\ UNCHANGED <<stdout, exc>>
         [] o = "empty" ->
              /\ work_files' = work_files \cup {"audio.wav.txt"}
              /\ transcription' = ""
              /\ Abort(P_FailTranscribe)
              /\ UNCHANGED exc
         [] o = "nonzero" ->
              /\ transcription' = None
              /\ Abort(P_FailTranscribe)
              /\ UNCHANGED <<work_files, exc>>
         [] o = "raise" ->
              /\ Raise("OSError")
              /\ UNCHANGED <<work_files, transcription, stdout>>
    /\ UNCHANGED <<repo, runs, env_key, disp, published, repo0, args, video_url, work_dir,
                   attempt, responses, video_path, audio_path, thumbnail_path, recipe,
                   slug, platform, git, stderr, exit_code>>

\* extract_recipe: the request or json.loads raises, or the parsed value is returned;
\* main aborts on a falsy value ({} or null)
ExtractRecipeRaises ==
    /\ pc = "extract"
    /\ stages' = Append(stages, "extract_recipe")
    /\ platform' = DetectPlatform(video_url)
    /\ Raise("JSONDecodeError")
    /\ UNCHANGED <<repo, runs, env_key, disp, published, repo0, args, video_url, work_dir,
                   work_files, attempt, responses, video_path, audio_path, thumbnail_path,
                   transcription, recipe, slug, git, stdout, stderr, exit_code>>

ExtractRecipeFalsy ==
    /\ pc = "extract"
    /\ stages' = Append(stages, "extract_recipe")
    /\ platform' = DetectPlatform(video_url)
    /\ recipe' = <<>>
    /\ Abort(P_FailRecipe)
    /\ UNCHANGED <<repo, runs, env_key, disp, published, repo0, args, video_url, work_dir,
                   work_files, attempt, responses, video_path, audio_path, thumbnail_path,
                   transcription, slug, exc, git, stderr, exit_code>>

ExtractRecipe(r) ==
    /\ pc = "extract"
    /\ platform' = DetectPlatform(video_url)
    /\ r \in RecipeAnswers(video_url, platform')
    /\ stages' = Append(stages, "extract_recipe")
    /\ recipe' = r
    /\ pc' = "save_slug"
    /\ UNCHANGED <<repo, runs, env_key, disp, published, repo0, args, video_url, work_dir,
                   work_files, attempt, responses, video_path, audio_path, thumbnail_path,
                   transcription, slug, exc, git, stdout, stderr, exit_code>>

(***************************************************************************)
(* Pipeline Runner: save_to_github, step by step (each step is one file    *)
(* operation or one command; an exception between two steps leaves the     *)
(* earlier writes in place).                                               *)
(***************************************************************************)
S_recipes_dir == <<"r","e","c","i","p","e","s","/">>
S_jpg == <<".","j","p","g">>

\* slug and colour scheme; recipe['title'] raises KeyError when the field is absent
SaveSlug ==
    /\ pc = "save_slug"
    /\ stages' = Append(stages, "save_to_github")
    /\ IF "title" \notin DOMAIN recipe
       THEN /\ Raise("KeyError")
            /\ UNCHANGED <<slug, recipe>>
       ELSE /\ slug' = MakeSlug(recipe.title)
            /\ recipe' = [colors |-> generate_color_scheme(recipe.title)] @@ recipe
            /\ pc' = "save_thumb"
            /\ UNCHANGED exc
    /\ UNCHANGED <<repo, runs, env_key, disp, published, repo0, args, video_url, work_dir,
                   work_files, attempt, responses, video_path, audio_path, thumbnail_path,
                   transcription, platform, git, stdout, stderr, exit_code>>

\* the copy made without asking whether a thumbnail was produced
ThumbnailAssumed == TRUE

\* if thumbnail_path and os.path.exists(thumbnail_path): copy, record the path
HasThumbnail == thumbnail_path # None /\ thumbnail_path \in work_files

SaveThumbnail ==
    /\ pc = "save_thumb"
    /\ IF HasThumbnail
       THEN /\ thumbFiles' = thumbFiles \cup {slug}
            /\ recipe' = [thumbnail |-> S_recipes_dir \o slug \o S_jpg] @@ recipe
       ELSE UNCHANGED <<thumbFiles, recipe>>
    /\ pc' = "save_record"
    /\ UNCHANGED <<index, recipeFiles, runs, env_key, disp, published, repo0, args, video_url,
                   work_dir, work_files, attempt, responses, video_path, audio_path,
                   thumbnail_path, transcription, slug, platform, exc, stages, git, stdout,
                   stderr, exit_code>>

\* the publish stage going on to the index without having written the record file
SaveRecordSkipped ==
    /\ pc = "save_record"
    /\ pc' = "save_index"
    /\ UNCHANGED <<repo, runs, env_key, disp, published, repo0, args, video_url,
                   work_dir, work_files, attempt, responses, video_path, audio_path,
                   thumbnail_path, transcription, recipe, slug, platform, exc, stages, git,
                   stdout, stderr, exit_code>>

\* json.dump(recipe) to recipes/<slug>.json
SaveRecord ==
    /\ pc = "save_record"
    /\ recipeFiles' = (slug :> recipe) @@ recipeFiles
    /\ pc' = "save_index"
    /\ UNCHANGED <<index, thumbFiles, runs, env_key, disp, published, repo0, args, video_url,
                   work_dir, work_files, attempt, responses, video_path, audio_path,
                   thumbnail_path, transcription, recipe, slug, platform, exc, stages, git,
                   stdout, stderr, exit_code>>

\* existing = [r for r in index['recipes'] if r['source']['url'] == recipe['source']['url']]
ExistingInIndex(idx, url) == {i \in DOMAIN idx : idx[i].source.url = url}

\* the index update as an upsert: an entry with the same source URL is overwritten
\* by the new projection instead of being left alone
SaveIndexUpsert ==
    /\ pc = "save_index"
    /\ IF {"source", "metadata"} \subseteq DOMAIN recipe
       THEN /\ index' = IF ExistingInIndex(index, recipe.source.url) # {}
                        THEN [i \in DOMAIN index |->
                                 IF i \in ExistingInIndex(index, recipe.source.url)
                                 THEN IndexEntry(recipe) ELSE index[i]]
                        ELSE Append(index, IndexEntry(recipe))
            /\ pc' = "git_add"
            /\ UNCHANGED exc
       ELSE /\ Raise("KeyError")
            /\ UNCHANGED index
    /\ UNCHANGED <<recipeFiles, thumbFiles, runs, env_key, disp, published, repo0, args,
                   video_url, work_dir, work_files, attempt, responses, video_path,
                   audio_path, thumbnail_path, transcription, recipe, slug, platform, stages,
                   git, stdout, stderr, exit_code>>

\* "Add to index (avoid duplicates)".  recipe['source'] raises KeyError in the
\* comprehension (non-empty index) or in index_entry (empty index);
\* recipe['metadata'] raises KeyError only where index_entry is built
SaveIndex ==
    /\ pc = "save_index"
    /\ IF "source" \notin DOMAIN recipe
       THEN /\ Raise("KeyError")
            /\ UNCHANGED index
       ELSE IF ExistingInIndex(index, recipe.source.url) # {}
       THEN /\ pc' = "git_add"
            /\ UNCHANGED <<index, exc>>
       ELSE IF "metadata" \notin DOMAIN recipe
       THEN /\ Raise("KeyError")
            /\ UNCHANGED index
       ELSE /\ index' = Append(index, IndexEntry(recipe))
            /\ pc' = "git_add"
            /\ UNCHANGED exc
    /\ UNCHANGED <<recipeFiles, thumbFiles, runs, env_key, disp, published, repo0, args,
                   video_url, work_dir, work_files, attempt, responses, video_path,
                   audio_path, thumbnail_path, transcription, recipe, slug, platform, stages,
                   git, stdout, stderr, exit_code>>

\* run_command: "ok", "nonzero" (printed, None returned) or "timeout"
\* (subprocess.run raises TimeoutExpired, which run_command does not catch)
run_command_raises(o) == o = "timeout"

GitNext(p) == CASE p = "git_add" -> "git_commit"
                [] p = "git_commit" -> "git_push"
                [] p = "git_push" -> "done"

\* run_command('git add -A'), run_command('git commit ...'), run_command('git push origin main')
GitCommand(o) ==
    /\ pc \in {"git_add", "git_commit", "git_push"}
    /\ git' = IF o = "ok" THEN git ELSE git \cup {o}
    /\ IF run_command_raises(o)
       THEN Raise("TimeoutExpired")
       ELSE pc' = GitNext(pc) /\ UNCHANGED exc
    /\ UNCHANGED <<repo, runs, env_key, disp, published, repo0, args, video_url, work_dir,
                   work_files, attempt, responses, video_path, audio_path, thumbnail_path,
                   transcription, recipe, slug, platform, stages, stdout, stderr, exit_code>>

\* save_to_github returns the site URL; main prints the closing lines and returns recipe
PrintDone ==
    /\ pc = "done"
    /\ stdout' = stdout \o <<<<>>, P_Done, P_Recipe(recipe.title), P_Site(S_SiteUrl)>>
    /\ published' = published \cup {<<runs, video_url>>}
    /\ pc' = "finally"
    /\ UNCHANGED <<repo, runs, env_key, disp, repo0, args, video_url, work_dir,
                   work_files, attempt, responses, video_path, audio_path, thumbnail_path,
                   transcription, recipe, slug, platform, exc, stages, git, stderr, exit_code>>

\* the clean-up as it would be after the try block instead of in a finally clause:
\* an exception skips it
CleanupAfterTryOnly ==
    /\ pc = "finally"
    /\ work_dir' = IF exc # "none" THEN work_dir ELSE "removed"
    /\ work_files' = IF exc # "none" THEN work_files ELSE {}
    /\ stderr' = IF exc # "none" THEN P_Traceback ELSE stderr
    /\ Exit(IF exc # "none" THEN 1 ELSE 0)
    /\ UNCHANGED <<repo, runs, env_key, disp, published, repo0, args, video_url,
                   attempt, responses, video_path, audio_path, thumbnail_path,
                   transcription, recipe, slug, platform, exc, stages, git, stdout>>

\* finally: shutil.rmtree(work_dir, ignore_errors=True); then the process ends:
\* status 0 after a return, status 1 and a traceback after an exception
Finally ==
    /\ pc = "finally"
    /\ work_dir' = "removed"
    /\ work_files' = {}
    /\ stderr' = IF exc # "none" THEN P_Traceback ELSE stderr
    /\ Exit(IF exc # "none" THEN 1 ELSE 0)
    /\ UNCHANGED <<repo, runs, env_key, disp, published, repo0, args, video_url,
                   attempt, responses, video_path, audio_path, thumbnail_path,
                   transcription, recipe, slug, platform, exc, stages, git, stdout>>

(***************************************************************************)
(* Command Dispatcher: telegram_handler.py main().                         *)
(***************************************************************************)
valid_platforms == <<S_tiktok, S_instagram, S_youtube, S_youtu_be>>

\* the platform check without url.lower()
SupportedPlatformCaseSensitive(url) ==
    \E i \in DOMAIN valid_platforms : Contains(valid_platforms[i], url)

\* any(p in url.lower() for p in valid_platforms)
SupportedPlatform(url) ==
    \E i \in DOMAIN valid_platforms : Contains(valid_platforms[i], Lower(url))

\* usage check, platform check, then subprocess.run(["python3", pipeline, url])
DispatcherValidate ==
    /\ d_pc = "start"
    /\ IF Len(d_args) < 1
       THEN /\ d_stdout' = Append(d_stdout, D_Usage)
            /\ d_exit' = 1
            /\ d_pc' = "exited"
            /\ UNCHANGED <<locals, proc>>
       ELSE IF ~SupportedPlatform(d_args[1])
       THEN /\ d_stdout' = Append(d_stdout, D_Unsupported)
            /\ d_exit' = 1
            /\ d_pc' = "exited"
            /\ UNCHANGED <<locals, proc>>
       ELSE /\ NewProcess(<<d_args[1]>>)
            /\ d_pc' = "wait"
            /\ UNCHANGED <<d_stdout, d_exit>>
    /\ UNCHANGED <<repo, runs, env_key, published, repo0, d_args, d_stderr>>

\* the lines of result.stdout that start with 'Recipe:'
RecipeLines(out) == {i \in DOMAIN out : StartsWith(out[i], S_RecipeColon)}

\* line.replace('Recipe:', '').strip()
TitleOf(line) == Strip(Replace(line, S_RecipeColon, <<>>))

\* what the dispatcher prints once the subprocess has ended with status rc
Summary(rc, out, err) ==
    IF rc = 0
    THEN IF RecipeLines(out) # {}
         THEN <<D_Added(TitleOf(out[Min(RecipeLines(out))])), P_Link>>
         ELSE <<>>
    ELSE <<D_Failed, LastChars(err, StderrTail)>>

\* status with which telegram_handler.py ends after relaying the summary:
\* main returns normally on both branches
DispatcherStatus(rc) == 0

DispatcherCollect ==
    /\ d_pc = "wait"
    /\ pc = "exited"
    /\ d_stdout' = d_stdout \o Summary(exit_code, stdout, stderr)
    /\ d_exit' = DispatcherStatus(exit_code)
    /\ d_pc' = "exited"
    /\ UNCHANGED <<repo, runs, env_key, published, repo0, locals, proc, d_args, d_stderr>>

\* subprocess.run(..., timeout=300) expires: the child is killed where it stands (its
\* variables die with it, its work directory stays) and TimeoutExpired leaves the
\* dispatcher's main uncaught
DispatcherTimeout ==
    /\ d_pc = "wait"
    /\ pc \notin {"exited", "killed"}
    /\ pc' = "killed"
    /\ exit_code' = Killed
    /\ NoLocals
    /\ d_stderr' = P_Traceback
    /\ d_exit' = 1
    /\ d_pc' = "exited"
    /\ UNCHANGED <<repo, runs, env_key, published, repo0, args, work_dir, work_files,
                   stdout, stderr, d_args, d_stdout>>

(***************************************************************************)
(* Specification.                                                          *)
(***************************************************************************)
DownloadOutcomes == {"ok", "non_tunnel", "exception", "fetch_exception"}
ToolOutcomes == {"ok", "nonzero", "raise"}
TranscribeOutcomes == {"ok", "empty", "nonzero", "raise"}
CommandOutcomes == {"ok", "nonzero", "timeout"}

Next ==
    \/ \E a \in ArgLists, k \in BOOLEAN : StartDirect(a, k)
    \/ \E a \in ArgLists, k \in BOOLEAN : StartDispatcher(a, k)
    \/ CheckArgs
    \/ DuplicateCheck
    \/ CredentialCheck
    \/ MakeWorkDir
    \/ \E o \in DownloadOutcomes, partial \in BOOLEAN : DownloadAttempt(o, partial)
    \/ AfterDownload
    \/ \E o \in ToolOutcomes : ExtractAudio(o)
    \/ \E o \in ToolOutcomes : ExtractThumbnail(o)
    \/ \E o \in TranscribeOutcomes : Transcribe(o)
    \/ ExtractRecipeRaises
    \/ ExtractRecipeFalsy
    \/ \E r \in RecipeAnswers(video_url, DetectPlatform(video_url)) : ExtractRecipe(r)
    \/ SaveSlug
    \/ SaveThumbnail
    \/ SaveRecord
    \/ SaveIndex
    \/ \E o \in CommandOutcomes : GitCommand(o)
    \/ PrintDone
    \/ Finally
    \/ DispatcherValidate
    \/ DispatcherCollect
    \/ DispatcherTimeout

Spec == Init /\ [][Next]_vars

(***************************************************************************)
(* Properties.                                                             *)
(***************************************************************************)
Last(q) == q[Len(q)]

\* the runner process of the current invocation has ended by itself
RunEnded == pc = "exited"

\* the current run has got past the duplicate check
PastDuplicateCheck == pc \notin {"idle", "main", "dupcheck", "killed"}

\* an earlier invocation completed the publish stage for the URL of the current one
\* (equal up to trailing slashes)
PublishedBefore ==
    \E p \in published : p[1] < runs /\ RStripSlash(p[2]) = RStripSlash(video_url)

\* C1: once a run on URL u has completed its publish stage, a later run on u (with
\* or without trailing slashes) ends at the duplicate check with no stage called,
\* no backend call and no work directory, and the index holds exactly one entry
\* for u.
C1_Idempotence ==
    (PublishedBefore /\ PastDuplicateCheck) =>
        /\ RunEnded
        /\ exit_code = 0
        /\ stages = <<>>
        /\ calls = 0
        /\ work_dir = "none"
        /\ Cardinality(ExistingFor(index, video_url)) = 1

\* C2: the index never holds two entries whose source URLs are equal once trailing
\* slashes are removed.
C2_IndexUnique ==
    \A i, j \in DOMAIN index :
        i # j => RStripSlash(index[i].source.url) # RStripSlash(index[j].source.url)

\* the run ended where a fatal stage gave up: that stage is the last one called
FatalStages == {"download_video", "extract_audio", "transcribe", "extract_recipe"}
AbortedAtFatalStage == RunEnded /\ stages # <<>> /\ Last(stages) \in FatalStages

\* C3: a run that a fatal stage aborted calls no later stage and ends with a
\* non-zero exit status, the only failure signal the dispatcher reads.
C3_FailureSignal == AbortedAtFatalStage => exit_code # 0

\* the run ended before the work directory is made: usage error, duplicate notice
\* or missing credential is the last line printed
EndedBeforeWorkDir ==
    RunEnded /\ stdout # <<>> /\ Last(stdout) \in {P_Usage, P_Link, P_NoKey}

\* C4: when a run ends, on any path (return or exception), the work directory it
\* made is gone; a run that ends at argument validation, the duplicate check or
\* the credential check never made one.
C4_WorkDirCleanup ==
    /\ RunEnded => work_dir # "exists"
    /\ pc \in {"main", "dupcheck", "cred", "mkdtemp"} => work_dir = "none"
    /\ EndedBeforeWorkDir => work_dir = "none"

\* C4 witness: a run that made a work directory was ended by an exception, and the
\* directory is removed
C4_Witness == RunEnded /\ exc # "none" /\ work_dir = "removed"

AllNonTunnel == \A i \in DOMAIN responses : responses[i] = "non_tunnel"
DownloadFailed == pc = "downloaded" /\ video_path = None

\* C5: download_video makes at most 3 backend calls; it gives up only after exactly
\* 3; when every answer is non-tunnel it gives up after the third with no media
\* file written; and once it has given up no later stage is called.
C5_RetryBound ==
    /\ calls <= 3
    /\ DownloadFailed => calls = 3
    /\ (AllNonTunnel /\ calls = 3) => (DownloadFailed /\ "video.mp4" \notin work_files)
    /\ (AllNonTunnel /\ calls \in 1..2) => (pc = "download" /\ "video.mp4" \notin work_files)
    /\ (stages # <<>> /\ video_path = None) =>
           (stages = <<"download_video">> /\ pc \in {"download", "downloaded", "finally", "exited"})

C5_Witness == DownloadFailed /\ AllNonTunnel /\ calls = 3

\* the dispatcher has ended after its runner subprocess ended by itself
RelayEnded == d_pc = "exited" /\ pc = "exited"

\* C6: when the dispatcher has started the runner, the dispatcher's exit status is
\* 0 if the runner's is 0 and 1 otherwise.
C6_ExitMirrored ==
    (d_pc = "exited" /\ pc \in {"exited", "killed"}) =>
        d_exit = (IF exit_code = 0 THEN 0 ELSE 1)

IsSuccessSummary(out) ==
    /\ Len(out) = 2
    /\ StartsWith(out[1], D_AddedHead)
    /\ out[2] = P_Link
IsFailureSummary(out) == Len(out) = 2 /\ out[1] = D_Failed

\* C7: a dispatcher invocation that started the runner prints exactly one summary:
\* the success message with a title and the publish URL when the runner's status
\* is 0, the failure message otherwise.
C7_OneSummary ==
    RelayEnded =>
        IF exit_code = 0 THEN IsSuccessSummary(d_stdout) ELSE IsFailureSummary(d_stdout)

\* C8: whatever way a git command fails (non-zero status or timeout), no exception
\* leaves save_to_github, the run prints its closing lines and ends with status 0,
\* and the record file written stays as written.
C8_GitFailuresSwallowed ==
    git # {} =>
        /\ exc = "none"
        /\ RunEnded =>
              /\ exit_code = 0
              /\ P_Done \in Range(stdout)
              /\ P_Recipe(recipe.title) \in Range(stdout)
              /\ slug \in DOMAIN recipeFiles
              /\ recipeFiles[slug] = recipe

\* nothing done by the run: no work directory, no stage, repository as found
NoWork == work_dir = "none" /\ stages = <<>> /\ repo = repo0

CompletedPublish == <<runs, video_url>> \in published
DuplicateShortCircuit ==
    RunEnded /\ Len(args) >= 1 /\ stages = <<>> /\ ExistingFor(index, video_url) # {}

\* C9 as stated: without a URL argument or without a credential the run ends with
\* status 1 and no work done, whatever the URL and the index; a run that
\* publishes or stops at the duplicate check ends with status 0.
C9_AsStated ==
    RunEnded =>
        /\ (Len(args) < 1 \/ ~env_key) => (exit_code = 1 /\ NoWork)
        /\ (CompletedPublish \/ DuplicateShortCircuit) => exit_code = 0

\* C9 amended: without a URL argument the run ends with status 1 and no work done;
\* without a credential it does no work and ends with status 1 unless its URL is
\* already indexed, in which case the duplicate check, which comes first, ends it
\* with status 0; a run that publishes or stops at the duplicate check ends with
\* status 0.
C9_InputValidation ==
    RunEnded =>
        /\ Len(args) < 1 => (exit_code = 1 /\ NoWork)
        /\ (Len(args) >= 1 /\ ~env_key) =>
              /\ NoWork
              /\ exit_code = (IF ExistingFor(index, video_url) = {} THEN 1 ELSE 0)
        /\ (CompletedPublish \/ DuplicateShortCircuit) => exit_code = 0

C9_Witness ==
    RunEnded /\ Len(args) >= 1 /\ ~env_key /\ ExistingFor(index, video_url) = {}
             /\ exit_code = 1

\* extract_thumbnail was called and returned None
ThumbnailFailed ==
    /\ Len(stages) >= 3
    /\ stages[3] = "extract_thumbnail"
    /\ thumbnail_path = None
    /\ ~(Len(stages) = 3 /\ exc # "none")

\* record files this invocation has written or rewritten
WrittenRecords ==
    {s \in DOMAIN recipeFiles : s \notin DOMAIN repo0[2] \/ recipeFiles[s] # repo0[2][s]}

\* index entries this invocation has appended
AppendedEntries == {i \in DOMAIN index : i > Len(repo0[1])}

W_TikTok == <<"T","i","k","T","o","k">>
W_TIKTOK == <<"T","I","K","T","O","K">>
W_Instagram == <<"I","n","s","t","a","g","r","a","m">>
W_YouTube == <<"Y","o","u","T","u","b","e">>
W_Youtu_Be == <<"Y","o","u","t","u",".","B","e">>
W_tiktak == <<"t","i","k","t","a","k">>
W_youtu_dash_be == <<"y","o","u","t","u","-","b","e">>
W_instagram_tiktok == S_instagram \o <<"/">> \o S_tiktok
W_youtube_instagram == S_youtube \o <<"/">> \o S_instagram

UrlWords ==
    {S_tiktok, W_TikTok, W_TIKTOK, S_instagram, W_Instagram, S_youtube, W_YouTube,
     S_youtu_be, W_Youtu_Be, U_vimeo, W_tiktak, W_youtu_dash_be,
     W_instagram_tiktok, W_youtube_instagram, <<>>}
UrlHeads == {<<>>, <<"w","w","w",".">>}
UrlTails == {<<>>, <<".","c","o","m","/","x">>}

TestUrls == {h \o w \o t : h \in UrlHeads, w \in UrlWords, t \in UrlTails}

\* sys.argv[1:] of a dispatcher call
TestArgLists == {<<>>} \cup {<<u>> : u \in TestUrls}

(***************************************************************************)
(* The dispatcher's validation on its own: calls with the test URLs, up to *)
(* the point where the subprocess is started or the call is rejected.      *)
(***************************************************************************)
DispatchNext ==
    \/ \E a \in TestArgLists, k \in BOOLEAN : StartDispatcher(a, k)
    \/ DispatcherValidate

DispatchSpec == Init /\ [][DispatchNext]_vars

\* a and b are the same character, or the two cases of one letter
SameLetter(a, b) ==
    a = b \/ \E i \in DOMAIN LowerLetters : {a, b} = {LowerLetters[i], UpperLetters[i]}

\* the lower-case word w stands in url right after its first k characters, in any case
OccursAt(w, url, k) ==
    k + Len(w) <= Len(url) /\ \A j \in DOMAIN w : SameLetter(url[k + j], w[j])

OccursIn(w, url) == \E k \in 0..Len(url) : OccursAt(w, url, k)

AllowListed(url) ==
    \E w \in {S_tiktok, S_instagram, S_youtube, S_youtu_be} : OccursIn(w, url)

\* C11: once the dispatcher has validated a URL argument, a Pipeline Runner
\* subprocess exists (started with exactly that URL) if and only if the URL,
\* case ignored, contains tiktok, instagram, youtube or youtu.be; when it contains
\* none the dispatcher has ended with a non-zero status and no subprocess exists.
C11_AllowList ==
    (d_pc \in {"wait", "exited"} /\ Len(d_args) >= 1) =>
        /\ (pc # "idle") <=> AllowListed(d_args[1])
        /\ pc # "idle" => d_pc = "wait" /\ pc = "main" /\ args = <<d_args[1]>>
        /\ pc = "idle" => d_pc = "exited" /\ d_exit \notin {0, NoExit}

\* a call whose URL holds no platform word has been rejected
C11_Witness ==
    /\ d_pc = "exited"
    /\ Len(d_args) >= 1
    /\ pc = "idle"
    /\ d_exit = 1
    /\ Last(d_stdout) = D_Unsupported

(***************************************************************************)
(* Platform detection on its own: the runner of a first direct invocation  *)
(* on a test URL, at the point where main calls extract_recipe (the stages *)
(* before it have succeeded), and the three ways extract_recipe ends.      *)
(***************************************************************************)
AtExtract(u) ==
    /\ index = <<>>
    /\ recipeFiles = <<>>
    /\ thumbFiles = {}
    /\ runs = 1
    /\ env_key = TRUE
    /\ pc = "extract"
    /\ args = <<u>>
    /\ video_url = Strip(u)
    /\ work_dir = "exists"
    /\ work_files = {"video.mp4", "audio.wav", "thumbnail.jpg", "audio.wav.txt"}
    /\ attempt = 0
    /\ responses = <<>>
    /\ video_path = "video.mp4"
    /\ audio_path = "audio.wav"
    /\ thumbnail_path = "thumbnail.jpg"
    /\ transcription = "text"
    /\ recipe = <<>>
    /\ slug = <<>>
    /\ platform = None
    /\ exc = "none"
    /\ stages = <<"download_video", "extract_audio", "extract_thumbnail", "transcribe">>
    /\ git = {}
    /\ stdout = <<P_Banner, P_Url(Strip(u)), <<>> >>
    /\ stderr = <<>>
    /\ exit_code = NoExit
    /\ d_pc = "off"
    /\ d_args = <<>>
    /\ d_stdout = <<>>
    /\ d_stderr = <<>>
    /\ d_exit = NoExit
    /\ published = {}
    /\ repo0 = <<<<>>, <<>>, {}>>

PlatformInit == \E u \in TestUrls : AtExtract(u)

PlatformNext ==
    \/ ExtractRecipeRaises
    \/ ExtractRecipeFalsy
    \/ \E r \in RecipeAnswers(video_url, DetectPlatform(video_url)) : ExtractRecipe(r)

PlatformSpec == PlatformInit /\ [][PlatformNext]_vars

\* the platform of a URL when case is ignored; a URL holding several platform words
\* gets the first of tiktok, instagram, youtube
PlatformIgnoringCase(url) ==
    IF OccursIn(S_tiktok, url) THEN "tiktok"
    ELSE IF OccursIn(S_instagram, url) THEN "instagram"
    ELSE IF OccursIn(S_youtube, url) THEN "youtube"
    ELSE "unknown"

\* C12: once extract_recipe has classified the URL, the platform is tiktok
\* (instagram, youtube) when the URL contains that word in any case, and unknown
\* when it contains none of them.
C12_PlatformDetection ==
    platform # None => platform = PlatformIgnoringCase(video_url)

(***************************************************************************)
(* Slug generation on its own: the runner of a first direct invocation at  *)
(* the point where main calls save_to_github, the language model having    *)
(* answered with any title of up to MaxTitleLen characters.                *)
(***************************************************************************)
MaxTitleLen == 3

\* one character of each kind the slug treats differently
TitleChars == {"A", "b", "1", " ", "/", "-", "!"}

TestTitles == UNION {[1..n -> TitleChars] : n \in 0..MaxTitleLen}

AtSave(r) ==
    /\ index = <<>>
    /\ recipeFiles = <<>>
    /\ thumbFiles = {}
    /\ runs = 1
    /\ env_key = TRUE
    /\ pc = "save_slug"
    /\ args = <<U_tiktok>>
    /\ video_url = U_tiktok
    /\ work_dir = "exists"
    /\ work_files = {"video.mp4", "audio.wav", "thumbnail.jpg", "audio.wav.txt"}
    /\ attempt = 0
    /\ responses = <<>>
    /\ video_path = "video.mp4"
    /\ audio_path = "audio.wav"
    /\ thumbnail_path = "thumbnail.jpg"
    /\ transcription = "text"
    /\ recipe = r
    /\ slug = <<>>
    /\ platform = DetectPlatform(U_tiktok)
    /\ exc = "none"
    /\ stages = <<"download_video", "extract_audio", "extract_thumbnail", "transcribe",
                  "extract_recipe">>
    /\ git = {}
    /\ stdout = <<P_Banner, P_Url(U_tiktok), <<>> >>
    /\ stderr = <<>>
    /\ exit_code = NoExit
    /\ d_pc = "off"
    /\ d_args = <<>>
    /\ d_stdout = <<>>
    /\ d_stderr = <<>>
    /\ d_exit = NoExit
    /\ published = {}
    /\ repo0 = <<<<>>, <<>>, {}>>

SlugInit ==
    \E t \in TestTitles : AtSave(FullRecipe(t, U_tiktok, DetectPlatform(U_tiktok)))

SlugNext == SaveSlug

SlugSpec == SlugInit /\ [][SlugNext]_vars

\* what one character of a title contributes to the slug, the characters of hy
\* being turned into hyphens
SlugOfChar(c, hy) ==
    IF c \in hy THEN <<"-">>
    ELSE IF c = "-" \/ c \in Range(LowerLetters) \cup Range(Digits) THEN <<c>>
    ELSE IF c \in Range(UpperLetters)
         THEN <<CHOOSE l \in Range(LowerLetters) : SameLetter(c, l)>>
    ELSE <<>>

RECURSIVE SlugByChar(_, _)
SlugByChar(title, hy) ==
    IF title = <<>> THEN <<>>
    ELSE SlugOfChar(Head(title), hy) \o SlugByChar(Tail(title), hy)

\* save_to_github has computed the slug of the recipe's title
SlugComputed == pc \in {"save_thumb", "save_record", "save_index"} /\ "title" \in DOMAIN recipe

\* C13 as stated: the slug is the title lower-cased, each space turned into a
\* hyphen, and every character that is neither alphanumeric nor a hyphen (a '/'
\* among them) deleted.
C13_SlugAsStated ==
    SlugComputed => slug = SlugByChar(recipe.title, {" "})

\* C13: the slug is the title lower-cased, each space and each '/' turned into a
\* hyphen, and every other character that is neither alphanumeric nor a hyphen
\* deleted; alphanumerics and hyphens are kept.
C13_Slug ==
    SlugComputed => slug = SlugByChar(recipe.title, {" ", "/"})

\* the slug of a title with an upper-case letter, a '/' and a '!'
C13_Witness ==
    SlugComputed /\ {"A", "/", "!"} \subseteq Range(recipe.title)

\* the stage functions in the order of main's try block
StageOrder ==
    <<"download_video", "extract_audio", "extract_thumbnail", "transcribe",
      "extract_recipe", "save_to_github">>

IsPrefix(s, t) == Len(s) <= Len(t) /\ SubSeq(t, 1, Len(s)) = s

\* C14: the stages called so far in a run are an initial part of download, audio
\* extraction, thumbnail extraction, transcription, structured extraction, publish
\* (so they run in that order and each at most once); a stage has run only after
\* the duplicate check found nothing; and publish has been called only if download,
\* audio extraction, transcription and structured extraction each returned a result.
C14_StageOrder ==
    /\ IsPrefix(stages, StageOrder)
    /\ stages # <<>> =>
          /\ pc \notin {"idle", "main", "dupcheck", "cred", "mkdtemp"}
          /\ ExistingFor(repo0[1], video_url) = {}
    /\ "save_to_github" \in Range(stages) =>
          /\ video_path # None
          /\ audio_path # None
          /\ transcription \notin {None, ""}
          /\ recipe # <<>>

\* a run that went through all six stages and completed the publish stage
C14_Witness ==
    stages = StageOrder /\ RunEnded /\ CompletedPublish

\* C15: at every point of an invocation the index the invocation found is an
\* initial part of the current index (its entries are all there, unchanged and in
\* the same places), and the current index is longer by at most one entry.
C15_IndexAppendOnly ==
    /\ IsPrefix(repo0[1], index)
    /\ Len(index) <= Len(repo0[1]) + 1

\* a run has appended its entry behind an entry that was there before
C15_Witness ==
    /\ RunEnded
    /\ repo0[1] # <<>>
    /\ Len(index) = Len(repo0[1]) + 1

RequiredFields == {"title", "source", "metadata"}

\* extract_recipe was called in this run and the answer could not be parsed, or the
\* value parsed from it lacks a required field
MalformedAnswer ==
    /\ "extract_recipe" \in Range(stages)
    /\ \/ stages[Len(stages)] = "extract_recipe" /\ exc = "JSONDecodeError"
       \/ exc # "JSONDecodeError" /\ ~(RequiredFields \subseteq DOMAIN recipe)

\* C16: a run whose language-model answer was malformed has ended with a non-zero
\* exit status, has appended nothing to the index, and its work directory is removed.
C16_MalformedFatal ==
    (RunEnded /\ MalformedAnswer) =>
        /\ exit_code # 0
        /\ index = repo0[1]
        /\ work_dir = "removed"

\* reachable: a run that completed the publish stage and ended with status 0 on an
\* answer without metadata, its source URL being one the index already holds
CompletedWithoutField ==
    RunEnded /\ MalformedAnswer /\ recipe # <<>> /\ CompletedPublish /\ exit_code = 0

\* C17: a run that has ended without completing the publish stage has left the
\* publish repository (index, record files, thumbnail files) as it found it.
C17_AbortLeavesRepository ==
    (RunEnded /\ ~CompletedPublish) => repo = repo0

\* C18: wherever the index holds an entry appended by the current invocation, the
\* record file recipes/<slug>.json of that entry is already written (the entry is
\* the projection of the record in the file) and, when the entry names a thumbnail,
\* the image file recipes/<slug>.jpg is already there too.
C18_RecordBeforeIndex ==
    \A i \in AppendedEntries :
        LET s == MakeSlug(index[i].title) IN
            /\ s \in DOMAIN recipeFiles
            /\ IndexEntry(recipeFiles[s]) = index[i]
            /\ "thumbnail" \in DOMAIN index[i] => s \in thumbFiles

\* the index has just been rewritten with a new entry that names a thumbnail
C18_Witness ==
    /\ pc = "git_add"
    /\ \E i \in AppendedEntries : "thumbnail" \in DOMAIN index[i]

=============================================================================
